---- MODULE Spec2Model ----
(***************************************************************************)
(* Model of the fetch-and-extract pipeline of web-content-extractor        *)
(* (src/src/extractor.ts): extractContent, attemptExtraction, setupPage,   *)
(* PageLoadError and isValidUrl.                                           *)
(*                                                                         *)
(* One invocation of extractContent is a sequential process; every await   *)
(* of the source is one action, and every browser operation may succeed or *)
(* throw.  Strings are sequences of tokens: a URL is a sequence such as    *)
(* <<"https://", "example.com">>, an error message a sequence such as      *)
(* <<"page.goto:", "net::ERR_ABORTED">>; String.includes is occurrence of  *)
(* a token, String.replace rewrites the first occurrence of a token.       *)
(***************************************************************************)
EXTENDS Integers, Sequences, FiniteSets, TLC

\* ---------------------------------------------------------------- bounds
\* longest URL string (in tokens) given to extractContent
MaxUrlLen == 3
\* most calls of attemptExtraction counted in one invocation: calls and
\* totalDelay cover the first MaxCalls calls, later calls run uncounted
MaxCalls == 4

\* ------------------------------------------------------ program constants
maxRetries == 3
retryDelay == 1000
domContentLoadedTimeout == 10000
raceTimer == 11000

problematicSites == {"washingtonpost.com", "bloomberg.com"}

PERMANENT_ERROR_PATTERNS ==
  { "net::ERR_NAME_NOT_RESOLVED",
    "net::ERR_NAME_RESOLUTION_FAILED",
    "net::ERR_INVALID_URL",
    "net::ERR_CONNECTION_REFUSED",
    "net::ERR_ABORTED" }

\* ------------------------------------------------------------ string model
\* option values: <<>> is null, <<v>> is the value v
Null == <<>>
Some(v) == <<v>>

\* String.prototype.includes, at token granularity
Includes(s, t) == \E i \in 1..Len(s) : s[i] = t

\* String.prototype.replace(from, to) with a string pattern: first occurrence only
ReplaceFirst(s, from, to) ==
  IF Includes(s, from)
  THEN LET k == CHOOSE i \in 1..Len(s) : s[i] = from /\ \A j \in 1..(i-1) : s[j] # from
       IN  [i \in 1..Len(s) |-> IF i = k THEN to ELSE s[i]]
  ELSE s

\* sequences over S of length at most n
SeqsUpTo(S, n) == UNION { [1..k -> S] : k \in 0..n }

\* --------------------------------------------------------------- URL inputs
SchemeTokens == {"https://", "http://", "ftp://"}
HostTokens == {"washingtonpost.com", "example.com"}
UrlTokens == SchemeTokens \cup HostTokens
UrlStrings == SeqsUpTo(UrlTokens, MaxUrlLen)

\* new URL(urlString): throws unless the string is scheme, host, rest
UrlParses(urlString) ==
  /\ Len(urlString) >= 2
  /\ urlString[1] \in SchemeTokens
  /\ urlString[2] \in HostTokens

\* url.protocol of the parsed URL
Protocol(urlString) ==
  CASE urlString[1] = "https://" -> "https:"
    [] urlString[1] = "http://"  -> "http:"
    [] OTHER                     -> "ftp:"

\* faulty variant: the protocol test is dropped
isValidUrl_AnyProtocol(urlString) == UrlParses(urlString)

isValidUrl(urlString) ==
  IF UrlParses(urlString)
  THEN Protocol(urlString) \in {"http:", "https:"}
  ELSE FALSE

\* ------------------------------------------------------------------ errors
\* faulty variant: the list as it stood before net::ERR_ABORTED was added
PermanentPattern_NoAborted(message) ==
  \E pattern \in PERMANENT_ERROR_PATTERNS \ {"net::ERR_ABORTED"} : Includes(message, pattern)

\* faulty variant: the message of an HTTP error counts as a permanent pattern
PermanentPattern_HttpError(message) ==
  \/ \E pattern \in PERMANENT_ERROR_PATTERNS : Includes(message, pattern)
  \/ Includes(message, "HTTP error:")

\* PERMANENT_ERROR_PATTERNS.some(pattern => message.includes(pattern))
PermanentPattern(message) ==
  \E pattern \in PERMANENT_ERROR_PATTERNS : Includes(message, pattern)

\* new PageLoadError(message)
PageLoadError(message) ==
  [name |-> "PageLoadError", message |-> message, permanent |-> PermanentPattern(message)]

\* an error that is not a PageLoadError: it has no permanent field (falsy)
RawError(message) ==
  [name |-> "Error", message |-> message, permanent |-> FALSE]

\* messages of the errors the browser operations throw
GotoMessages ==
  { <<"page.goto:", "net::ERR_TIMED_OUT">> }
  \cup { <<"page.goto:", p>> : p \in PERMANENT_ERROR_PATTERNS }
SetupMessages == { <<"Target closed">> }
PageMessages == { <<"Target closed">> }
LoadStateTimeoutMessage == <<"page.waitForLoadState:", "Timeout 10000ms exceeded">>
FaultMessage == <<"fault">>

\* -------------------------------------------------------------- text model
\* characters of a text: an ordinary character, space, tab, carriage return,
\* line feed
SP == " "
TAB == "TAB"
CR == "CR"
LF == "LF"
Chars == {"a", SP, TAB, CR, LF}
Whitespace == {SP, TAB, CR, LF}
\* longest text (in characters) Readability hands over as article.textContent
MaxTextLen == 5
\* longest text node (in characters) of a document body
MaxNodeLen == 2
Texts == SeqsUpTo(Chars, MaxTextLen)
Repeat(c, n) == [i \in 1..n |-> c]

\* s without its first k characters
Drop(s, k) == SubSeq(s, k + 1, Len(s))
\* length of the longest prefix / suffix of s made of characters of S
LeadLen(s, S) ==
  IF \A i \in 1..Len(s) : s[i] \in S THEN Len(s)
  ELSE (CHOOSE i \in 1..Len(s) : s[i] \notin S /\ \A j \in 1..(i-1) : s[j] \in S) - 1
TrailLen(s, S) ==
  IF \A i \in 1..Len(s) : s[i] \in S THEN Len(s)
  ELSE Len(s) - (CHOOSE i \in 1..Len(s) : s[i] \notin S /\ \A j \in (i+1)..Len(s) : s[j] \in S)

\* length of the longest prefix of s holding no character of T, at least 1:
\* the characters a pass over s copies before its pattern can match again
PlainLen(s, T) ==
  IF s[1] \in T THEN 1
  ELSE IF \A i \in 1..Len(s) : s[i] \notin T THEN Len(s)
  ELSE (CHOOSE i \in 1..Len(s) : s[i] \in T /\ \A j \in 1..(i-1) : s[j] \notin T) - 1

\* .replace(/\r\n/g, '\n')
RECURSIVE CrLfToLf(_)
CrLfToLf(s) ==
  IF s = <<>> THEN <<>>
  ELSE IF Len(s) >= 2 /\ s[1] = CR /\ s[2] = LF THEN <<LF>> \o CrLfToLf(Drop(s, 2))
  ELSE LET k == PlainLen(s, {CR}) IN SubSeq(s, 1, k) \o CrLfToLf(Drop(s, k))

\* .replace(/[ \t]+/g, ' ')
RECURSIVE CollapseBlanks(_)
CollapseBlanks(s) ==
  IF s = <<>> THEN <<>>
  ELSE IF s[1] \in {SP, TAB} THEN <<SP>> \o CollapseBlanks(Drop(s, LeadLen(s, {SP, TAB})))
  ELSE LET k == PlainLen(s, {SP, TAB}) IN SubSeq(s, 1, k) \o CollapseBlanks(Drop(s, k))

\* .replace(/ +\n/g, '\n')
RECURSIVE DropSpacesBeforeLf(_)
DropSpacesBeforeLf(s) ==
  IF s = <<>> THEN <<>>
  ELSE IF s[1] = SP
  THEN LET k == LeadLen(s, {SP})
       IN  IF k < Len(s) /\ s[k + 1] = LF
           THEN <<LF>> \o DropSpacesBeforeLf(Drop(s, k + 1))
           ELSE SubSeq(s, 1, k) \o DropSpacesBeforeLf(Drop(s, k))
  ELSE LET k == PlainLen(s, {SP}) IN SubSeq(s, 1, k) \o DropSpacesBeforeLf(Drop(s, k))

\* .replace(/\n +/g, '\n')
RECURSIVE DropSpacesAfterLf(_)
DropSpacesAfterLf(s) ==
  IF s = <<>> THEN <<>>
  ELSE IF s[1] = LF
  THEN <<LF>> \o DropSpacesAfterLf(Drop(s, 1 + LeadLen(Tail(s), {SP})))
  ELSE LET k == PlainLen(s, {LF}) IN SubSeq(s, 1, k) \o DropSpacesAfterLf(Drop(s, k))

\* .replace(/\n{2,}/g, '\n\n')
RECURSIVE CapLineFeeds(_)
CapLineFeeds(s) ==
  IF s = <<>> THEN <<>>
  ELSE IF Len(s) >= 2 /\ s[1] = LF /\ s[2] = LF
  THEN <<LF, LF>> \o CapLineFeeds(Drop(s, LeadLen(s, {LF})))
  ELSE LET k == PlainLen(s, {LF}) IN SubSeq(s, 1, k) \o CapLineFeeds(Drop(s, k))

\* .replace(/^\n+|\n+$/g, '')
StripLineFeeds(s) ==
  LET t == Drop(s, LeadLen(s, {LF}))
  IN  SubSeq(t, 1, Len(t) - TrailLen(t, {LF}))

\* .trim()
Trim(s) ==
  LET t == Drop(s, LeadLen(s, Whitespace))
  IN  SubSeq(t, 1, Len(t) - TrailLen(t, Whitespace))

\* normalizeText(text: string | undefined): text is an option
normalizeText(text) ==
  IF text = Null \/ text[1] = <<>> THEN <<>>
  ELSE Trim(StripLineFeeds(CapLineFeeds(DropSpacesAfterLf(
         DropSpacesBeforeLf(CollapseBlanks(CrLfToLf(text[1])))))))

\* String.prototype.slice(0, n)
SliceFrom0(s, n) == SubSeq(s, 1, IF Len(s) < n THEN Len(s) ELSE n)

\* x || y for an option of a string
OrElse(x, y) == IF x = Null \/ x[1] = <<>> THEN y ELSE x[1]

\* concatenation of a sequence of strings
RECURSIVE Concat(_)
Concat(ss) == IF ss = <<>> THEN <<>> ELSE ss[1] \o Concat(Tail(ss))

\* ----------------------------------------------------------------- pages
\* An HTML string is a record of what the libraries read from it: markup is the
\* string itself (<<>> the empty string); title and body are the document JSDOM
\* parses, body being null when the selectors of cleanHTML remove the body
\* element, nodes the text nodes of the body in document order; article is what
\* Readability's parse() returns for it (null, or its fields, each possibly absent).
excerptChars == 150

NodeTexts == SeqsUpTo(Chars, MaxNodeLen)
LongTexts ==
  { Repeat("a", excerptChars + 1),
    Repeat("a", excerptChars - 1) \o <<SP, SP, "a">> }
NodeLists ==
  {<<>>} \cup { <<n>> : n \in NodeTexts \cup LongTexts }
         \cup { <<n, m>> : n \in NodeTexts, m \in NodeTexts }
Body(nodes, markup) == [nodes |-> nodes, innerHTML |-> markup]
Bodies == {Null} \cup { Some(Body(nodes, <<"<div>">>)) : nodes \in NodeLists }
Titles == { <<>>, <<"a", SP>> }

Article(title, content, textContent, excerpt, byline, siteName) ==
  [title |-> title, content |-> content, textContent |-> textContent,
   excerpt |-> excerpt, byline |-> byline, siteName |-> siteName]
Articles ==
  { Article(Some(<<"a">>), Some(<<"<p>">>), Some(t), Some(<<"a">>), Null, Null) :
      t \in Texts \cup LongTexts }
  \cup { Article(title, content, textContent, excerpt, byline, siteName) :
           title \in {Null, Some(<<"a", SP>>)},
           content \in {Null, Some(<<"<p>">>)},
           textContent \in {Null, Some(<<SP, "a">>)},
           excerpt \in {Null, Some(<<"a", SP>>), Some(Repeat("a", excerptChars + 1))},
           byline \in {Null, Some(<<"b">>)},
           siteName \in {Null, Some(<<"s">>)} }

Page(markup, title, body, article) ==
  [markup |-> markup, title |-> title, body |-> body, article |-> article]
EmptyHtml == Page(<<>>, <<>>, Some(Body(<<>>, <<>>)), Null)
FallbackPages == { Page(<<"<html>">>, t, b, Null) : t \in Titles, b \in Bodies }
ReadablePages ==
  { Page(<<"<html>">>, <<"a">>, Some(Body(<<<<"a">>>>, <<"<div>">>)), Some(a)) :
      a \in Articles }
Pages == FallbackPages \cup ReadablePages

\* HTML strings an attempt can capture
HtmlStrings ==
  { EmptyHtml,
    Page(<<"<html>">>, <<"a", SP>>, Some(Body(<< <<SP, "a">> >>, <<"<div>">>)), Null),
    Page(<<"<html>">>, <<"a">>, Some(Body(<< <<"a">> >>, <<"<div>">>)),
         Some(Article(Some(<<"a">>), Some(<<"<p>">>), Some(<<"a", LF>>), Some(<<"a">>),
                      Some(<<"b">>), Null))) }

\* cleanHTML(document): the text nodes of the body after cleanWhitespace; the
\* call cleanWhitespace(document.body) throws a TypeError when the body is null
cleanHTML(page) ==
  IF page.body = Null
  THEN [threw |-> TRUE, nodes |-> <<>>]
  ELSE [threw |-> FALSE,
        nodes |-> [i \in 1..Len(page.body[1].nodes) |-> CollapseBlanks(page.body[1].nodes[i])]]
TypeErrorMessage == <<"Cannot read properties of null (reading 'nodeType')">>

\* const rawText = document.body?.textContent || ''
RawText(page) == OrElse(Some(Concat(cleanHTML(page).nodes)), <<>>)

\* faulty variant: the fallback result carries the marker and the byline of
\* the primary pass
FallbackContent_Readable(page) ==
  [title |-> normalizeText(Some(page.title)),
   content |-> OrElse(Some(page.body[1].innerHTML), <<>>),
   textContent |-> normalizeText(Some(RawText(page))),
   length |-> Len(RawText(page)),
   excerpt |-> normalizeText(Some(SliceFrom0(RawText(page), excerptChars))),
   byline |-> Some(<<"b">>),
   siteName |-> Null,
   isReadable |-> TRUE]

\* the return statement of the `if (!article)` branch of processHTML
FallbackContent(page) ==
  [title |-> normalizeText(Some(page.title)),
   content |-> OrElse(Some(page.body[1].innerHTML), <<>>),
   textContent |-> normalizeText(Some(RawText(page))),
   length |-> Len(RawText(page)),
   excerpt |-> normalizeText(Some(SliceFrom0(RawText(page), excerptChars))),
   byline |-> Null,
   siteName |-> Null,
   isReadable |-> FALSE]

\* the final return statement of processHTML
PrimaryContent(article) ==
  [title |-> normalizeText(article.title),
   content |-> OrElse(article.content, <<>>),
   textContent |-> normalizeText(article.textContent),
   length |-> IF article.textContent = Null THEN 0 ELSE Len(article.textContent[1]),
   excerpt |-> normalizeText(article.excerpt),
   byline |-> article.byline,
   siteName |-> article.siteName,
   isReadable |-> TRUE]

\* what processHTML returns for a page whose body is not null
ExtractedContent(page) ==
  IF page.article = Null THEN FallbackContent(page) ELSE PrimaryContent(page.article[1])

\* Response.ok(): status 0 or 200..299
ResponseStatuses == {200, 404}
ResponseOk(status) == status = 0 \/ (status >= 200 /\ status <= 299)
StatusText(status) == IF status = 200 THEN "OK" ELSE "Not Found"

\* times at which the page can fire DOMContentLoaded; -1: never
DclTimes == {-1, 0, 10500}

VARIABLES
  url,               \* argument of extractContent
  pc,                \* position of the invocation
  browser,           \* "none", "open", "closed"
  context,           \* TRUE once browser.newContext() returned
  openPages,         \* pages created and not yet closed
  isProblematicSite,
  html,              \* option: string | null
  attempts,
  lastError,         \* option: Error | null
  forceHttp1,        \* parameter of the running attemptExtraction call
  targetUrl,         \* option: the URL page.goto was given in the running call
  thrown,            \* option: the error propagating at this position
  captured,          \* option: the string page.content() returned in the running call
  result,            \* option: the value processHTML returned
  outcome,           \* what the caller observes: pending, result or error
  calls,             \* number of calls of attemptExtraction so far, up to MaxCalls
  delay,             \* backoff waited right before the latest call
  totalDelay,        \* sum of the backoffs waited before the counted calls
  callResult,        \* how the latest call ended: running, html, retry, permanent, exhausted
  closeError,        \* option: what the latest close() rejected with, dropped by its
                     \* .catch(() => {}); kept until the next step of extractContent
  handler,           \* the caller of extractContent: "none", "http", "tool", "toolOld"
  request,           \* what the handler was called with
  response,          \* option: what the handler returned
  passes,            \* the passes of processHTML run so far, in order
  inv,               \* concurrent invocations: the locals of each call of extractContent
  browsers,          \* concurrent invocations: the browser processes alive
  config             \* concurrent invocations: the module-level CONFIG object

vars == <<url, pc, browser, context, openPages, isProblematicSite, html, attempts,
          lastError, forceHttp1, targetUrl, thrown, captured, result, outcome,
          calls, delay, totalDelay, callResult, closeError, handler, request, response,
          passes, inv, browsers, config>>

\* the variables of the model of two concurrent invocations
pairVars == <<inv, browsers, config>>

\* const CONFIG: Config = { maxRetries: 3, retryDelay: 1000, ... }
CONFIG == [maxRetries |-> maxRetries, retryDelay |-> retryDelay,
           problematicSites |-> problematicSites]

\* the variables of the handler that called extractContent
handlerVars == <<handler, request, response>>

Pending == [kind |-> "pending"]

Init ==
  /\ url \in UrlStrings
  /\ pc = "start"
  /\ browser = "none"
  /\ context = FALSE
  /\ openPages = 0
  /\ isProblematicSite = FALSE
  /\ html = Null
  /\ attempts = 0
  /\ lastError = Null
  /\ forceHttp1 = FALSE
  /\ targetUrl = Null
  /\ thrown = Null
  /\ captured = Null
  /\ result = Null
  /\ outcome = Pending
  /\ calls = 0
  /\ delay = 0
  /\ totalDelay = 0
  /\ callResult = "none"
  /\ closeError = Null
  /\ handler = "none"
  /\ request = Null
  /\ response = Null
  /\ passes = <<>>
  /\ inv = <<>>
  /\ browsers = {}
  /\ config = CONFIG

\* ------------------------------------------------------------ extractContent
Failed(error) == [kind |-> "error", error |-> error]
Returned(value) == [kind |-> "result", value |-> value]

\* !html
Falsy(h) == h = Null \/ h[1].markup = <<>>

\* if (!isValidUrl(url)) throw new PageLoadError('Invalid URL format')
Validate ==
  /\ pc = "start"
  /\ IF ~isValidUrl(url)
     THEN /\ outcome' = Failed(PageLoadError(<<"Invalid URL format">>))
          /\ pc' = "done"
     ELSE /\ pc' = "launch"
          /\ UNCHANGED outcome
  /\ UNCHANGED <<url, browser, context, openPages, isProblematicSite, html, attempts,
                 lastError, forceHttp1, targetUrl, thrown, captured, result,
                 calls, delay, totalDelay, callResult>>
  /\ UNCHANGED <<closeError, handlerVars, pairVars>>
  /\ UNCHANGED passes

\* const browser = await chromium.launch(...): outside the try block
Launch ==
  /\ pc = "launch"
  /\ \/ /\ browser' = "open"
        /\ pc' = "newContext"
        /\ UNCHANGED outcome
     \/ /\ outcome' = Failed(RawError(FaultMessage))
        /\ pc' = "done"
        /\ UNCHANGED browser
  /\ UNCHANGED <<url, context, openPages, isProblematicSite, html, attempts,
                 lastError, forceHttp1, targetUrl, thrown, captured, result,
                 calls, delay, totalDelay, callResult>>
  /\ UNCHANGED <<closeError, handlerVars, pairVars>>
  /\ UNCHANGED passes

\* faulty variant: newContext awaited before the try block, so its fault skips the finally
NewContext_OutsideTry ==
  /\ pc = "newContext"
  /\ \/ /\ context' = TRUE
        /\ isProblematicSite' = \E site \in problematicSites : Includes(url, site)
        /\ html' = Null
        /\ attempts' = 0
        /\ lastError' = Null
        /\ pc' = "loop"
        /\ UNCHANGED outcome
     \/ /\ outcome' = Failed(RawError(FaultMessage))
        /\ pc' = "done"
        /\ UNCHANGED <<context, isProblematicSite, html, attempts, lastError>>
  /\ UNCHANGED <<url, browser, openPages, forceHttp1, targetUrl, thrown, captured,
                 result, calls, delay, totalDelay, callResult>>
  /\ UNCHANGED <<closeError, handlerVars, pairVars>>
  /\ UNCHANGED passes

\* const context = await browser.newContext(...), then the loop's locals
NewContext ==
  /\ pc = "newContext"
  /\ \/ /\ context' = TRUE
        /\ isProblematicSite' = \E site \in problematicSites : Includes(url, site)
        /\ html' = Null
        /\ attempts' = 0
        /\ lastError' = Null
        /\ pc' = "loop"
        /\ UNCHANGED thrown
     \/ /\ thrown' = Some(RawError(FaultMessage))
        /\ pc' = "browserClose"
        /\ UNCHANGED <<context, isProblematicSite, html, attempts, lastError>>
  /\ UNCHANGED <<url, browser, openPages, forceHttp1, targetUrl, captured, result,
                 outcome, calls, delay, totalDelay, callResult>>
  /\ UNCHANGED <<closeError, handlerVars, pairVars>>
  /\ UNCHANGED passes

\* while (attempts < CONFIG.maxRetries && !html)
LoopContinues(a, h) == a < maxRetries /\ Falsy(h)

\* the branch of the loop body that waits before the attempt
BacksOff(n, problematic) == ~(n = 0) /\ ~(n = 1 /\ problematic)

\* faulty variant: the parity test inverted
ForceHttp1Arg_OddParity(n, problematic) ==
  IF n = 0 THEN FALSE
  ELSE IF n = 1 /\ problematic THEN TRUE
  ELSE n % 2 = 1

\* the forceHttp1 argument of the attempt with counter value n
ForceHttp1Arg(n, problematic) ==
  IF n = 0 THEN FALSE
  ELSE IF n = 1 /\ problematic THEN TRUE
  ELSE n % 2 = 0

\* CONFIG.retryDelay * attempts
BackoffDelay(n) == retryDelay * n

\* one more call of attemptExtraction, counted up to MaxCalls
CountCall(n) == IF n < MaxCalls THEN n + 1 ELSE n

\* the loop test, and the call of attemptExtraction in the branches without a delay
LoopTest ==
  /\ pc = "loop"
  /\ IF LoopContinues(attempts, html)
     THEN /\ IF BacksOff(attempts, isProblematicSite)
             THEN /\ pc' = "backoff"
                  /\ UNCHANGED <<forceHttp1, calls, delay, callResult>>
             ELSE /\ pc' = "newPage"
                  /\ forceHttp1' = ForceHttp1Arg(attempts, isProblematicSite)
                  /\ calls' = CountCall(calls)
                  /\ delay' = 0
                  /\ callResult' = "running"
          /\ UNCHANGED thrown
     ELSE /\ IF Falsy(html)
             THEN /\ thrown' = Some(PageLoadError(<<"Failed to extract content">>))
                  /\ pc' = "browserClose"
             ELSE /\ pc' = "processHTML"
                  /\ UNCHANGED thrown
          /\ UNCHANGED <<forceHttp1, calls, delay, callResult>>
  /\ UNCHANGED <<url, browser, context, openPages, isProblematicSite, html, attempts,
                 lastError, targetUrl, captured, result, outcome, totalDelay>>
  /\ closeError' = Null
  /\ UNCHANGED <<handlerVars, pairVars>>
  /\ UNCHANGED passes

\* await new Promise(resolve => setTimeout(resolve, CONFIG.retryDelay * attempts))
Backoff ==
  /\ pc = "backoff"
  /\ pc' = "newPage"
  /\ forceHttp1' = ForceHttp1Arg(attempts, isProblematicSite)
  /\ calls' = CountCall(calls)
  /\ delay' = BackoffDelay(attempts)
  /\ totalDelay' = IF calls < MaxCalls THEN totalDelay + delay' ELSE totalDelay
  /\ callResult' = "running"
  /\ UNCHANGED <<url, browser, context, openPages, isProblematicSite, html, attempts,
                 lastError, targetUrl, thrown, captured, result, outcome>>
  /\ UNCHANGED <<closeError, handlerVars, pairVars>>
  /\ UNCHANGED passes

\* ---------------------------------------------------- setupPage (not in a try)
\* const page = await context.newPage()
NewPage ==
  /\ pc = "newPage"
  /\ \/ /\ openPages' = openPages + 1
        /\ pc' = "setExtraHTTPHeaders"
        /\ UNCHANGED thrown
     \/ \E m \in SetupMessages :
          /\ thrown' = Some(RawError(m))
          /\ pc' = "catch"
          /\ UNCHANGED openPages
  /\ UNCHANGED <<url, browser, context, isProblematicSite, html, attempts, lastError,
                 forceHttp1, targetUrl, captured, result, outcome,
                 calls, delay, totalDelay, callResult>>
  /\ UNCHANGED <<closeError, handlerVars, pairVars>>
  /\ UNCHANGED passes

\* const targetUrl = forceHttp1 ? url.replace('https://', 'http://') : url
TargetUrl(u, force) == IF force THEN ReplaceFirst(u, "https://", "http://") ELSE u

\* await page.setExtraHTTPHeaders(CONFIG.headers); return page; then line 127.
\* setupPage is called before the try block of attemptExtraction: an error of it
\* leaves attemptExtraction at once, for the catch of the retry loop
SetExtraHTTPHeaders ==
  /\ pc = "setExtraHTTPHeaders"
  /\ \/ /\ targetUrl' = Some(TargetUrl(url, forceHttp1))
        /\ pc' = "waitForTimeout"
        /\ UNCHANGED thrown
     \/ \E m \in SetupMessages :
          /\ thrown' = Some(RawError(m))
          /\ pc' = "catch"
          /\ UNCHANGED targetUrl
  /\ UNCHANGED <<url, browser, context, openPages, isProblematicSite, html, attempts,
                 lastError, forceHttp1, captured, result, outcome,
                 calls, delay, totalDelay, callResult>>
  /\ UNCHANGED <<closeError, handlerVars, pairVars>>
  /\ UNCHANGED passes

\* ------------------------------------------- attemptExtraction, the try block
\* await page.waitForTimeout(Math.random() * 1000 + 500)
WaitForTimeout ==
  /\ pc = "waitForTimeout"
  /\ \/ /\ pc' = "goto"
        /\ UNCHANGED thrown
     \/ \E m \in PageMessages :
          /\ thrown' = Some(RawError(m))
          /\ pc' = "attemptCatch"
  /\ UNCHANGED <<url, browser, context, openPages, isProblematicSite, html, attempts,
                 lastError, forceHttp1, targetUrl, captured, result, outcome,
                 calls, delay, totalDelay, callResult>>
  /\ UNCHANGED <<closeError, handlerVars, pairVars>>
  /\ UNCHANGED passes

\* `HTTP error: ${response?.status()} ${response?.statusText()}`
HttpErrorMessage(status) == <<"HTTP error:", ToString(status), StatusText(status)>>

\* const response = await page.goto(targetUrl, ...) and the two response tests
Goto ==
  /\ pc = "goto"
  /\ \/ \E m \in GotoMessages :
          /\ thrown' = Some(RawError(m))
          /\ pc' = "attemptCatch"
     \/ /\ thrown' = Some(PageLoadError(<<"No response received">>))
        /\ pc' = "attemptCatch"
     \/ \E status \in ResponseStatuses :
          IF ~ResponseOk(status)
          THEN /\ thrown' = Some(PageLoadError(HttpErrorMessage(status)))
               /\ pc' = "attemptCatch"
          ELSE /\ pc' = "race"
               /\ UNCHANGED thrown
  /\ UNCHANGED <<url, browser, context, openPages, isProblematicSite, html, attempts,
                 lastError, forceHttp1, targetUrl, captured, result, outcome,
                 calls, delay, totalDelay, callResult>>
  /\ UNCHANGED <<closeError, handlerVars, pairVars>>
  /\ UNCHANGED passes

\* page.waitForLoadState('domcontentloaded', { timeout: 10000 }): fulfilled when
\* the event fires within the timeout, rejected at the timeout otherwise
LoadStateSettles(dcl) ==
  IF dcl >= 0 /\ dcl <= domContentLoadedTimeout
  THEN [at |-> dcl, fulfilled |-> TRUE]
  ELSE [at |-> domContentLoadedTimeout, fulfilled |-> FALSE]

\* page.waitForTimeout(11000): fulfilled when the timer expires
TimerSettles == [at |-> raceTimer, fulfilled |-> TRUE]

\* Promise.race: settles as the first of its promises to settle, fulfilled or rejected
PromiseRace(p, q) == IF p.at <= q.at THEN p ELSE q

\* await Promise.race([page.waitForLoadState(...), page.waitForTimeout(11000)])
Race ==
  /\ pc = "race"
  /\ \E dcl \in DclTimes :
       IF PromiseRace(LoadStateSettles(dcl), TimerSettles).fulfilled
       THEN /\ pc' = "evaluate"
            /\ UNCHANGED thrown
       ELSE /\ thrown' = Some(RawError(LoadStateTimeoutMessage))
            /\ pc' = "attemptCatch"
  /\ UNCHANGED <<url, browser, context, openPages, isProblematicSite, html, attempts,
                 lastError, forceHttp1, targetUrl, captured, result, outcome,
                 calls, delay, totalDelay, callResult>>
  /\ UNCHANGED <<closeError, handlerVars, pairVars>>
  /\ UNCHANGED passes

\* await page.evaluate(() => window.scrollTo(...))
Evaluate ==
  /\ pc = "evaluate"
  /\ \/ /\ pc' = "content"
        /\ UNCHANGED thrown
     \/ \E m \in PageMessages :
          /\ thrown' = Some(RawError(m))
          /\ pc' = "attemptCatch"
  /\ UNCHANGED <<url, browser, context, openPages, isProblematicSite, html, attempts,
                 lastError, forceHttp1, targetUrl, captured, result, outcome,
                 calls, delay, totalDelay, callResult>>
  /\ UNCHANGED <<closeError, handlerVars, pairVars>>
  /\ UNCHANGED passes

\* return await page.content()
Content ==
  /\ pc = "content"
  /\ \/ \E h \in HtmlStrings :
          /\ captured' = Some(h)
          /\ pc' = "pageClose"
          /\ UNCHANGED thrown
     \/ \E m \in PageMessages :
          /\ thrown' = Some(RawError(m))
          /\ pc' = "attemptCatch"
          /\ UNCHANGED captured
  /\ UNCHANGED <<url, browser, context, openPages, isProblematicSite, html, attempts,
                 lastError, forceHttp1, targetUrl, result, outcome,
                 calls, delay, totalDelay, callResult>>
  /\ UNCHANGED <<closeError, handlerVars, pairVars>>
  /\ UNCHANGED passes

\* catch (error: any) { throw new PageLoadError(error.message) }
AttemptCatch ==
  /\ pc = "attemptCatch"
  /\ thrown' = Some(PageLoadError(thrown[1].message))
  /\ pc' = "pageClose"
  /\ UNCHANGED <<url, browser, context, openPages, isProblematicSite, html, attempts,
                 lastError, forceHttp1, targetUrl, captured, result, outcome,
                 calls, delay, totalDelay, callResult>>
  /\ UNCHANGED <<closeError, handlerVars, pairVars>>
  /\ UNCHANGED passes

\* what a close() call can settle as: fulfilled (Null) or rejected with an error
CloseErrors == { Null, Some(RawError(<<"Target closed">>)) }

\* faulty variant: close() awaited without a handler, so its rejection replaces
\* what was propagating when the finally block was entered
AfterClose_Unhandled(pending, rejection) ==
  IF rejection = Null THEN pending ELSE rejection

\* await x.close().catch(() => {}) inside finally: the handler turns a rejection
\* into a fulfilled promise, so what propagates after the block is what was
\* propagating when it was entered
AfterClose(pending, rejection) == pending

\* finally { await page.close().catch(() => {}) }; then the call returns the
\* captured string (html = ...) or throws
PageClose ==
  /\ pc = "pageClose"
  /\ \E rejection \in CloseErrors :
       /\ closeError' = rejection
       /\ thrown' = AfterClose(thrown, rejection)
  /\ openPages' = openPages - 1
  /\ targetUrl' = Null
  /\ captured' = Null
  /\ IF thrown' = Null
     THEN /\ html' = captured
          /\ callResult' = "html"
          /\ pc' = "loop"
     ELSE /\ pc' = "catch"
          /\ UNCHANGED <<html, callResult>>
  /\ UNCHANGED <<url, browser, context, isProblematicSite, attempts, lastError,
                 forceHttp1, result, outcome, calls, delay, totalDelay>>
  /\ UNCHANGED <<handlerVars, pairVars>>
  /\ UNCHANGED passes

\* ------------------------------------------- extractContent, the loop's catch
\* faulty variant: the permanent flag is never honoured
RethrownAsPermanent_Never(error) == FALSE

\* error instanceof PageLoadError && error.permanent
RethrownAsPermanent(error) == error.name = "PageLoadError" /\ error.permanent

\* attempts >= CONFIG.maxRetries, tested after attempts++
RetriesExhausted(a) == a >= maxRetries

\* `Failed to load page after ${attempts} attempts: ${lastError?.message}`
ExhaustedMessage(a, message) ==
  <<"Failed to load page after", ToString(a), "attempts:">> \o message

\* catch (error: any) { lastError = error; attempts++; ... }
LoopCatch ==
  /\ pc = "catch"
  /\ lastError' = thrown
  /\ attempts' = attempts + 1
  /\ IF RethrownAsPermanent(thrown[1])
     THEN /\ pc' = "browserClose"
          /\ callResult' = "permanent"
          /\ UNCHANGED thrown
     ELSE IF RetriesExhausted(attempts')
     THEN /\ thrown' = Some(PageLoadError(ExhaustedMessage(attempts', lastError'[1].message)))
          /\ pc' = "browserClose"
          /\ callResult' = "exhausted"
     ELSE /\ thrown' = Null
          /\ pc' = "loop"
          /\ callResult' = "retry"
  /\ UNCHANGED <<url, browser, context, openPages, isProblematicSite, html,
                 forceHttp1, targetUrl, captured, result, outcome, calls, delay,
                 totalDelay>>
  /\ closeError' = Null
  /\ UNCHANGED <<handlerVars, pairVars>>
  /\ UNCHANGED passes

\* return await processHTML(html!, url)
\* faulty variant: Readability parses the document before cleanHTML has sanitized it
ProcessPasses_ReadabilityFirst == <<"strip", "Readability", "cleanHTML">>

\* the passes of processHTML in the order of its statements: the two
\* html.replace calls, cleanHTML(document), reader.parse()
ProcessPasses == <<"strip", "cleanHTML", "Readability">>

\* the passes run when the k-th one throws, or all of them
PassesUpTo(k) == SubSeq(ProcessPasses, 1, k)

ProcessHTML ==
  /\ pc = "processHTML"
  /\ \/ IF cleanHTML(html[1]).threw
        THEN /\ thrown' = Some(RawError(TypeErrorMessage))
             /\ passes' = passes \o PassesUpTo(2)
             /\ UNCHANGED result
        ELSE /\ result' = Some(ExtractedContent(html[1]))
             /\ passes' = passes \o PassesUpTo(Len(ProcessPasses))
             /\ UNCHANGED thrown
     \/ /\ thrown' = Some(RawError(FaultMessage))
        /\ \E k \in 1..Len(ProcessPasses) : passes' = passes \o PassesUpTo(k)
        /\ UNCHANGED result
  /\ pc' = "browserClose"
  /\ UNCHANGED <<url, browser, context, openPages, isProblematicSite, html, attempts,
                 lastError, forceHttp1, targetUrl, captured, outcome,
                 calls, delay, totalDelay, callResult>>
  /\ UNCHANGED <<closeError, handlerVars, pairVars>>

\* finally { await browser.close().catch(() => {}) };
\* closing the browser ends its context and every page still open in it
BrowserClose ==
  /\ pc = "browserClose"
  /\ browser' = "closed"
  /\ context' = FALSE
  /\ openPages' = 0
  /\ \E rejection \in CloseErrors :
       /\ closeError' = rejection
       /\ outcome' = IF AfterClose(thrown, rejection) = Null
                     THEN Returned(result[1])
                     ELSE Failed(AfterClose(thrown, rejection)[1])
  /\ pc' = "done"
  /\ UNCHANGED <<url, isProblematicSite, html, attempts, lastError, forceHttp1,
                 targetUrl, thrown, captured, result,
                 calls, delay, totalDelay, callResult>>
  /\ UNCHANGED <<handlerVars, pairVars>>
  /\ UNCHANGED passes

Next ==
  \/ Validate
  \/ Launch
  \/ NewContext
  \/ LoopTest
  \/ Backoff
  \/ NewPage
  \/ SetExtraHTTPHeaders
  \/ WaitForTimeout
  \/ Goto
  \/ Race
  \/ Evaluate
  \/ Content
  \/ AttemptCatch
  \/ PageClose
  \/ LoopCatch
  \/ ProcessHTML
  \/ BrowserClose

Spec == Init /\ [][Next]_vars

\* one invocation, extractContent('https://example.com'), in which every browser
\* operation and delay terminates: a step that can be taken is eventually taken
InitFair == Init /\ url = <<"https://", "example.com">>
Fairness ==
  /\ WF_vars(Validate) /\ WF_vars(Launch) /\ WF_vars(NewContext) /\ WF_vars(LoopTest)
  /\ WF_vars(Backoff) /\ WF_vars(NewPage) /\ WF_vars(SetExtraHTTPHeaders)
  /\ WF_vars(WaitForTimeout) /\ WF_vars(Goto) /\ WF_vars(Race) /\ WF_vars(Evaluate)
  /\ WF_vars(Content) /\ WF_vars(AttemptCatch) /\ WF_vars(PageClose)
  /\ WF_vars(LoopCatch) /\ WF_vars(BrowserClose)
  \* processHTML returns or throws: the step is enabled exactly at this position
  /\ []<>(pc # "processHTML")
SpecFair == InitFair /\ [][Next]_vars /\ Fairness

\* processHTML on its own: the invocation right before `return await
\* processHTML(html!, url)`, after one attempt that captured any of the pages
InitProcess ==
  /\ url = <<"https://", "example.com">>
  /\ pc = "processHTML"
  /\ browser = "open"
  /\ context = TRUE
  /\ openPages = 0
  /\ isProblematicSite = FALSE
  /\ html \in { Some(page) : page \in Pages }
  /\ attempts = 0
  /\ lastError = Null
  /\ forceHttp1 = FALSE
  /\ targetUrl = Null
  /\ thrown = Null
  /\ captured = Null
  /\ result = Null
  /\ outcome = Pending
  /\ calls = 1
  /\ delay = 0
  /\ totalDelay = 0
  /\ callResult = "html"
  /\ closeError = Null
  /\ handler = "none"
  /\ request = Null
  /\ response = Null
  /\ passes = <<>>
  /\ inv = <<>>
  /\ browsers = {}
  /\ config = CONFIG

NextProcess ==
  \/ ProcessHTML
  \/ BrowserClose

SpecProcess == InitProcess /\ [][NextProcess]_vars

\* ------------------------------------------------- the callers of extractContent
\* "POST /extract": the route of src/server.ts; "extract-url-content": the tool
\* of src/mcp-server.ts; "extract": the tool of the earlier src/mcp-server.ts
Handlers == {"POST /extract", "extract-url-content", "extract"}
ToolHandlers == {"extract-url-content", "extract"}

\* URL strings a caller sends: one that does not parse, one with a protocol
\* isValidUrl rejects, one that is extracted
RequestUrls ==
  { <<"example.com">>, <<"ftp://", "example.com">>, <<"https://", "example.com">> }

\* a request body: json is FALSE when c.req.json() throws; url is the url
\* property of the parsed body, Null when the body has none
RequestBody(json, u) == [json |-> json, url |-> u]
HttpBodies ==
  { RequestBody(FALSE, Null), RequestBody(TRUE, Null), RequestBody(TRUE, Some(<<>>)) }
  \cup { RequestBody(TRUE, Some(u)) : u \in RequestUrls }
\* tool arguments: the schema { url: z.string().url() } admits strings that parse
ToolArguments == { RequestBody(TRUE, Some(u)) : u \in { x \in RequestUrls : UrlParses(x) } }
Requests(h) == IF h = "POST /extract" THEN HttpBodies ELSE ToolArguments

\* c.json(object, status)
Json(object, status) == [status |-> status, body |-> object]

\* faulty variant: the catch block answers with the message of the error
PostExtractExit_LeaksMessage(o) ==
  IF o.kind = "result"
  THEN Json(o.value, 200)
  ELSE Json([error |-> o.error.message], 500)

\* return c.json(content) / catch: return c.json({ error: 'Failed to extract content' }, 500)
PostExtractExit(o) ==
  IF o.kind = "result"
  THEN Json(o.value, 200)
  ELSE Json([error |-> <<"Failed to extract content">>], 500)

\* x ? a : b for an option of a string
Truthy(x) == x # Null /\ x[1] # <<>>

\* the text item of the tool 'extract-url-content'
ContentText(r) ==
  (IF r.title # <<>> THEN <<"# ">> \o r.title \o <<LF, LF>> ELSE <<>>)
  \o (IF Truthy(r.siteName) THEN <<"Source: ">> \o r.siteName[1] \o <<LF>> ELSE <<>>)
  \o (IF Truthy(r.byline) THEN <<"Author: ">> \o r.byline[1] \o <<LF, LF>> ELSE <<LF>>)
  \o <<"## Content", LF, LF>> \o r.textContent

TextItem(text) == [type |-> "text", text |-> text]

\* the return statements of the tool 'extract-url-content'
ExtractUrlContentExit(o, u) ==
  IF o.kind = "result"
  THEN [content |-> SelectSeq(<<TextItem(ContentText(o.value))>>, LAMBDA item : item.text # <<>>),
        metadata |-> [isReadable |-> o.value.isReadable,
                      contentLength |-> o.value.length,
                      excerpt |-> o.value.excerpt,
                      url |-> u]]
  ELSE [content |-> <<TextItem(<<"Error extracting content: ">> \o o.error.message)>>,
        isError |-> TRUE,
        metadata |-> [error |-> o.error.message, url |-> u]]

\* the return statements of the earlier tool 'extract'
ExtractExit(o, u) ==
  IF o.kind = "result"
  THEN [content |-> << TextItem(<<"Title: ">> \o o.value.title \o <<LF, LF>>),
                       TextItem(<<"Site: ">> \o OrElse(o.value.siteName, <<"Unknown">>) \o <<LF>>),
                       TextItem(<<"Author: ">> \o OrElse(o.value.byline, <<"Unknown">>) \o <<LF, LF>>),
                       TextItem(o.value.content) >>,
        metadata |-> [isReadable |-> o.value.isReadable,
                      contentLength |-> o.value.length,
                      excerpt |-> o.value.excerpt]]
  ELSE [content |-> <<TextItem(<<"Error extracting content: ">> \o o.error.message)>>,
        isError |-> TRUE]

\* the handler up to its call of extractContent(url)
HandlerEntry ==
  /\ pc = "request"
  /\ IF handler = "POST /extract" /\ ~request.json
     THEN /\ response' = Some(Json([error |-> <<"Failed to extract content">>], 500))
          /\ pc' = "responded"
          /\ UNCHANGED url
     ELSE IF handler = "POST /extract" /\ ~Truthy(request.url)
     THEN /\ response' = Some(Json([error |-> <<"URL is required">>], 400))
          /\ pc' = "responded"
          /\ UNCHANGED url
     ELSE /\ url' = request.url[1]
          /\ pc' = "start"
          /\ UNCHANGED response
  /\ UNCHANGED <<browser, context, openPages, isProblematicSite, html, attempts,
                 lastError, forceHttp1, targetUrl, thrown, captured, result, outcome,
                 calls, delay, totalDelay, callResult, closeError, handler, request>>
  /\ UNCHANGED pairVars
  /\ UNCHANGED passes

\* the handler after extractContent returned or threw
HandlerExit ==
  /\ pc = "done"
  /\ handler \in Handlers
  /\ response' = Some(CASE handler = "POST /extract" -> PostExtractExit(outcome)
                        [] handler = "extract-url-content" -> ExtractUrlContentExit(outcome, url)
                        [] handler = "extract" -> ExtractExit(outcome, url))
  /\ pc' = "responded"
  /\ UNCHANGED <<url, browser, context, openPages, isProblematicSite, html, attempts,
                 lastError, forceHttp1, targetUrl, thrown, captured, result, outcome,
                 calls, delay, totalDelay, callResult, closeError, handler, request>>
  /\ UNCHANGED pairVars
  /\ UNCHANGED passes

InitServer ==
  /\ handler \in Handlers
  /\ request \in Requests(handler)
  /\ response = Null
  /\ passes = <<>>
  /\ url = <<>>
  /\ pc = "request"
  /\ browser = "none"
  /\ context = FALSE
  /\ openPages = 0
  /\ isProblematicSite = FALSE
  /\ html = Null
  /\ attempts = 0
  /\ lastError = Null
  /\ forceHttp1 = FALSE
  /\ targetUrl = Null
  /\ thrown = Null
  /\ captured = Null
  /\ result = Null
  /\ outcome = Pending
  /\ calls = 0
  /\ delay = 0
  /\ totalDelay = 0
  /\ callResult = "none"
  /\ closeError = Null
  /\ inv = <<>>
  /\ browsers = {}
  /\ config = CONFIG

NextServer ==
  \/ HandlerEntry
  \/ HandlerExit
  \/ Next

SpecServer == InitServer /\ [][NextServer]_vars

\* ------------------------------------------------ two concurrent invocations
\* Two calls of extractContent on one event loop: inv[i] holds the locals of
\* call i, a step is what call i does between two awaits, with each call of
\* attemptExtraction and of processHTML taken as one step (they work on the
\* call's own page and document). failed and lastFailure are the call's own
\* history: how many of its attempts threw, and the last error one threw.
soloVars == <<url, pc, browser, context, openPages, isProblematicSite, html, attempts,
              lastError, forceHttp1, targetUrl, thrown, captured, result, outcome,
              calls, delay, totalDelay, callResult, closeError, handler, request, response,
              passes>>

Invocations == {1, 2}
BrowserIds == {1, 2}
NoBrowser == 0

Frame(u) ==
  [url |-> u, pc |-> "start", browser |-> NoBrowser, isProblematicSite |-> FALSE,
   html |-> Null, attempts |-> 0, lastError |-> Null, thrown |-> Null,
   result |-> Null, outcome |-> Pending, failed |-> 0, lastFailure |-> Null]

\* the step of call i leaves the locals of the other call alone
Store(i, frame) == [inv EXCEPT ![i] = frame]

\* faulty variant: one browser held at module level, closed by whichever call ends
ClosedBy_ModuleLevel(i) == browsers

\* browser.close(): the processes call i ends
ClosedBy(i) == {inv[i].browser}

PairValidate(i) ==
  /\ inv[i].pc = "start"
  /\ inv' = Store(i, IF ~isValidUrl(inv[i].url)
                     THEN [inv[i] EXCEPT !.outcome = Failed(PageLoadError(<<"Invalid URL format">>)),
                                         !.pc = "done"]
                     ELSE [inv[i] EXCEPT !.pc = "launch"])
  /\ UNCHANGED <<browsers, config>>
  /\ UNCHANGED soloVars

\* const browser = await chromium.launch(...): a new browser process
PairLaunch(i) ==
  /\ inv[i].pc = "launch"
  /\ \/ \E b \in BrowserIds \ browsers :
          /\ browsers' = browsers \cup {b}
          /\ inv' = Store(i, [inv[i] EXCEPT !.browser = b, !.pc = "newContext"])
     \/ /\ inv' = Store(i, [inv[i] EXCEPT !.outcome = Failed(RawError(FaultMessage)),
                                          !.pc = "done"])
        /\ UNCHANGED browsers
  /\ UNCHANGED config
  /\ UNCHANGED soloVars

\* const context = await browser.newContext(...), then the loop's locals
PairNewContext(i) ==
  /\ inv[i].pc = "newContext"
  /\ \/ inv' = Store(i, [inv[i] EXCEPT
                           !.isProblematicSite =
                              \E site \in config.problematicSites : Includes(inv[i].url, site),
                           !.html = Null, !.attempts = 0, !.lastError = Null,
                           !.pc = "loop"])
     \/ inv' = Store(i, [inv[i] EXCEPT !.thrown = Some(RawError(FaultMessage)),
                                       !.pc = "close"])
  /\ UNCHANGED <<browsers, config>>
  /\ UNCHANGED soloVars

\* while (attempts < CONFIG.maxRetries && !html), and `if (!html) throw` after it
PairLoop(i) ==
  /\ inv[i].pc = "loop"
  /\ inv' = Store(i, IF inv[i].attempts < config.maxRetries /\ Falsy(inv[i].html)
                     THEN [inv[i] EXCEPT !.pc = "attempt"]
                     ELSE IF Falsy(inv[i].html)
                     THEN [inv[i] EXCEPT
                             !.thrown = Some(PageLoadError(<<"Failed to extract content">>)),
                             !.pc = "close"]
                     ELSE [inv[i] EXCEPT !.pc = "process"])
  /\ UNCHANGED <<browsers, config>>
  /\ UNCHANGED soloVars

\* the catch block of the loop, for the error e of an attempt of call i
Caught(i, e) ==
  LET n == inv[i].attempts + 1
      f == [inv[i] EXCEPT !.lastError = Some(e), !.attempts = n,
                          !.failed = inv[i].failed + 1, !.lastFailure = Some(e)]
  IN  IF RethrownAsPermanent(e)
      THEN [f EXCEPT !.thrown = Some(e), !.pc = "close"]
      ELSE IF n >= config.maxRetries
      THEN [f EXCEPT !.thrown = Some(PageLoadError(ExhaustedMessage(n, e.message))),
                     !.pc = "close"]
      ELSE [f EXCEPT !.pc = "loop"]

\* html = await attemptExtraction(url, context, ...): returns a string or throws
PairAttempt(i) ==
  /\ inv[i].pc = "attempt"
  /\ \/ \E h \in HtmlStrings :
          inv' = Store(i, [inv[i] EXCEPT !.html = Some(h), !.pc = "loop"])
     \/ \E m \in GotoMessages :
          inv' = Store(i, Caught(i, PageLoadError(m)))
  /\ UNCHANGED <<browsers, config>>
  /\ UNCHANGED soloVars

\* return await processHTML(html!, url)
PairProcess(i) ==
  /\ inv[i].pc = "process"
  /\ inv' = Store(i, IF cleanHTML(inv[i].html[1]).threw
                     THEN [inv[i] EXCEPT !.thrown = Some(RawError(TypeErrorMessage)),
                                         !.pc = "close"]
                     ELSE [inv[i] EXCEPT !.result = Some(ExtractedContent(inv[i].html[1])),
                                         !.pc = "close"])
  /\ UNCHANGED <<browsers, config>>
  /\ UNCHANGED soloVars

\* finally { await browser.close().catch(() => {}) }
PairClose(i) ==
  /\ inv[i].pc = "close"
  /\ browsers' = browsers \ ClosedBy(i)
  /\ inv' = Store(i, [inv[i] EXCEPT
                        !.outcome = IF inv[i].thrown = Null
                                    THEN Returned(inv[i].result[1])
                                    ELSE Failed(inv[i].thrown[1]),
                        !.pc = "done"])
  /\ UNCHANGED config
  /\ UNCHANGED soloVars

InitPair ==
  /\ \E u \in {<<"ftp://", "example.com">>, <<"https://", "washingtonpost.com">>} :
       inv = <<Frame(<<"https://", "example.com">>), Frame(u)>>
  /\ browsers = {}
  /\ config = CONFIG
  /\ url = <<>>
  /\ pc = "start"
  /\ browser = "none"
  /\ context = FALSE
  /\ openPages = 0
  /\ isProblematicSite = FALSE
  /\ html = Null
  /\ attempts = 0
  /\ lastError = Null
  /\ forceHttp1 = FALSE
  /\ targetUrl = Null
  /\ thrown = Null
  /\ captured = Null
  /\ result = Null
  /\ outcome = Pending
  /\ calls = 0
  /\ delay = 0
  /\ totalDelay = 0
  /\ callResult = "none"
  /\ closeError = Null
  /\ handler = "none"
  /\ request = Null
  /\ response = Null
  /\ passes = <<>>

NextPair ==
  \E i \in Invocations :
    \/ PairValidate(i)
    \/ PairLaunch(i)
    \/ PairNewContext(i)
    \/ PairLoop(i)
    \/ PairAttempt(i)
    \/ PairProcess(i)
    \/ PairClose(i)

SpecPair == InitPair /\ [][NextPair]_vars

\* ====================================================================== claims
Terminal == pc = "done"
IsPermanentPageLoadError(e) == e.name = "PageLoadError" /\ e.permanent

\* C1: once the browser has been launched, every way the invocation ends is
\* preceded by the call of browser.close(): no terminal state has the browser
\* open, the browser is closed only by the last step, and a page is closed only
\* while the browser has not been closed yet.
C1_BrowserClosedOnEveryExit ==
  /\ Terminal => browser # "open"
  /\ browser = "closed" => Terminal
  /\ pc = "pageClose" => browser = "open"

\* C1 witness: an unexpected fault of HTML processing after a completed attempt
\* ends with the browser closed.
C1_Witness ==
  /\ Terminal
  /\ browser = "closed"
  /\ calls = 1
  /\ callResult = "html"
  /\ outcome = Failed(RawError(FaultMessage))

\* C2 (as claimed): the number of calls of attemptExtraction never exceeds
\* maxRetries, whatever the attempts return or raise.
C2_CallsNeverExceedMaxRetries == calls <= maxRetries

\* C3: an attempt that raises a Permanent error is followed by no further
\* attempt and no further backoff, and the invocation fails with that same
\* error; if it was the first attempt, after one attempt and zero backoff.
C3_PermanentFinal ==
  (pc \in {"browserClose", "done"} /\ lastError # Null
     /\ IsPermanentPageLoadError(lastError[1]))
  => /\ thrown = lastError
     /\ pc = "done" => outcome = Failed(lastError[1])
     /\ calls = 1 => totalDelay = 0
C3_PermanentStep ==
  (pc = "catch" /\ IsPermanentPageLoadError(thrown[1]))
  => /\ pc' = "browserClose"
     /\ thrown' = thrown
     /\ calls' = calls
     /\ totalDelay' = totalDelay
C3_PermanentAbortsRetries == []C3_PermanentFinal /\ [][C3_PermanentStep]_vars

\* C3 witness: the first attempt raised a Permanent error and the invocation
\* ended with it after one attempt and no backoff.
C3_Witness ==
  /\ Terminal
  /\ calls = 1
  /\ totalDelay = 0
  /\ outcome.kind = "error"
  /\ outcome.error = PageLoadError(<<"page.goto:", "net::ERR_NAME_NOT_RESOLVED">>)
  /\ outcome.error.permanent

\* C4: for an input that does not parse as a URL with scheme http or https the
\* invocation fails with 'Invalid URL format' and no browser, context or page is
\* ever created and no navigation performed.
ParsesAsHttpUrl(u) ==
  /\ Len(u) >= 2
  /\ u[1] \in {"http://", "https://"}
  /\ u[2] \in HostTokens
C4_InvalidUrlFailsBeforeLaunch ==
  ~ParsesAsHttpUrl(url)
  => /\ pc \in {"start", "done"}
     /\ browser = "none"
     /\ ~context
     /\ openPages = 0
     /\ calls = 0
     /\ targetUrl = Null
     /\ Terminal => /\ outcome.kind = "error"
                    /\ outcome.error.name = "PageLoadError"
                    /\ outcome.error.message = <<"Invalid URL format">>

\* C4 witness: an ftp URL, which parses but has another scheme, has been rejected.
C4_Witness ==
  /\ url = <<"ftp://", "example.com">>
  /\ Terminal
  /\ outcome.kind = "error"

\* every PageLoadError the invocation holds at this position
PageLoadErrorsHeld ==
  { e \in (IF thrown = Null THEN {} ELSE {thrown[1]})
          \cup (IF lastError = Null THEN {} ELSE {lastError[1]})
          \cup (IF outcome.kind = "error" THEN {outcome.error} ELSE {}) :
      e.name = "PageLoadError" }

\* C5 (as claimed): a PageLoadError is Permanent exactly when its message denotes
\* a name-resolution failure, an invalid URL or a refused connection.
DenotesUnreachable(message) ==
  \/ Includes(message, "net::ERR_NAME_NOT_RESOLVED")
  \/ Includes(message, "net::ERR_NAME_RESOLUTION_FAILED")
  \/ Includes(message, "net::ERR_INVALID_URL")
  \/ Includes(message, "net::ERR_CONNECTION_REFUSED")
C5_Classified ==
  \A e \in PageLoadErrorsHeld :
    e.permanent <=> (DenotesUnreachable(e.message) \/ Includes(e.message, "net::ERR_ABORTED"))
C5_TransientRetried ==
  (pc = "catch"
     /\ ~(/\ thrown[1].name = "PageLoadError"
          /\ \/ DenotesUnreachable(thrown[1].message)
             \/ Includes(thrown[1].message, "net::ERR_ABORTED"))
     /\ attempts + 1 < maxRetries)
  => /\ pc' = "loop"
     /\ thrown' = Null
     /\ attempts' = attempts + 1
C6_ExhaustedAfterExactlyMaxRetries ==
  (pc \in {"browserClose", "done"} /\ callResult = "exhausted")
  => /\ thrown[1].name = "PageLoadError"
     /\ thrown[1].message =
          <<"Failed to load page after", "3", "attempts:">> \o lastError[1].message
     /\ attempts = maxRetries
     /\ calls = maxRetries

\* the three errors the interface names
IsInvalidUrlError(e) == e.name = "PageLoadError" /\ e.message = <<"Invalid URL format">>
IsExhaustedError(e) ==
  /\ e.name = "PageLoadError"
  /\ Len(e.message) >= 3
  /\ e.message[1] = "Failed to load page after"

\* C7 (as claimed): the only errors that reach the caller are the invalid-URL
\* error, a Permanent navigation error and the retries-exhausted error.
C7_OnlyNamedErrorsEscape ==
  (Terminal /\ outcome.kind = "error")
  => \/ IsInvalidUrlError(outcome.error)
     \/ IsPermanentPageLoadError(outcome.error)
     \/ IsExhaustedError(outcome.error)

\* C8 (as claimed): after an OK response the wait for DOM-content-loaded or the
\* fixed timer never fails the attempt: the attempt goes on to the scroll.
C8_RaceStep == pc = "race" => pc' = "evaluate" /\ thrown' = Null
C8_RaceNeverFailsAttempt == [][C8_RaceStep]_vars

\* C9 (as claimed): at most one page is open at any time; no page is open when
\* an attempt opens its page, nor when the browser is closed.
C9_AtMostOnePageOpen ==
  /\ openPages <= 1
  /\ pc = "newPage" => openPages = 0
  /\ pc = "browserClose" => openPages = 0

\* C10: strategy of the call with counter value n = attempts: n = 0 navigates to
\* the URL as given with no backoff; n = 1 on a problematic site navigates to
\* the downgraded URL with no backoff; every other n waits retryDelay * n first
\* and navigates to the downgraded URL exactly when n is even.
Downgraded(u) == ReplaceFirst(u, "https://", "http://")
C10_StrategySelection ==
  callResult = "running"
  => /\ attempts = 0 => ~forceHttp1 /\ delay = 0
     /\ (attempts = 1 /\ isProblematicSite) => forceHttp1 /\ delay = 0
     /\ (attempts # 0 /\ ~(attempts = 1 /\ isProblematicSite))
          => /\ delay = 1000 * attempts
             /\ forceHttp1 <=> attempts % 2 = 0
     /\ targetUrl # Null
          => targetUrl[1] = IF forceHttp1 THEN Downgraded(url) ELSE url

\* C10 witness: the third attempt (n = 2) runs after a backoff of 2000 ms and
\* navigates to the downgraded URL.
C10_Witness ==
  /\ callResult = "running"
  /\ pc = "goto"
  /\ attempts = 2
  /\ delay = 2000
  /\ url = <<"https://", "example.com">>
  /\ targetUrl = Some(<<"http://", "example.com">>)

\* the host of a URL string that parses
HostOf(u) == u[2]

\* C11 (as claimed): the call with counter value 1 uses the protocol downgrade
\* only if the host of the URL matches an entry of problematicSites, whatever
\* the path and query of the URL are.
C11_DowngradeOnlyForProblematicHost ==
  (callResult = "running" /\ attempts = 1 /\ forceHttp1)
  => HostOf(url) \in problematicSites


\* C12 (as claimed): for every result returned by processHTML, primary and
\* fallback branch alike, result.length equals the number of characters of
\* result.textContent.
C12_LengthIsTextContentLength ==
  result # Null => result[1].length = Len(result[1].textContent)

\* C13 (as claimed): normalizeText is idempotent: for every text x that
\* processHTML hands to it as article.textContent, normalizing the normalized
\* text again gives the same text.
C13_NormalizeTextIdempotent ==
  (result # Null /\ html[1].article # Null)
  => normalizeText(Some(normalizeText(html[1].article[1].textContent)))
       = normalizeText(html[1].article[1].textContent)

\* C14: for every result of processHTML, isReadable is true exactly when
\* Readability's parse() returned a non-null article, and whenever isReadable is
\* false both byline and siteName are null.
C14_ReadableIffArticle ==
  result # Null =>
    /\ result[1].isReadable <=> html[1].article # Null
    /\ ~result[1].isReadable => (result[1].byline = Null /\ result[1].siteName = Null)

\* processHTML returned the fallback result for a page with body text and no article
C14_Witness ==
  /\ result # Null
  /\ html[1].article = Null
  /\ result[1].textContent # <<>>
  /\ ~result[1].isReadable

\* C18 (as claimed): for every result of processHTML the excerpt has at most
\* 150 characters; in the fallback branch it equals normalizeText applied to
\* the first 150 raw characters of the body text.
C18_ExcerptAtMost150 ==
  result # Null =>
    /\ Len(result[1].excerpt) <= excerptChars
    /\ html[1].article = Null =>
         result[1].excerpt = normalizeText(Some(SliceFrom0(RawText(html[1]), excerptChars)))

\* C15: an error raised by page.close() or by browser.close() is swallowed: the
\* step that closes the page ends the attempt with the captured HTML, or with
\* the classified error that was propagating, and the step that closes the
\* browser ends the invocation with the result, or with the error that was
\* propagating, whether the close call fulfilled or rejected.
C15_CloseStep ==
  /\ pc = "pageClose" =>
       /\ thrown' = thrown
       /\ thrown = Null => (html' = captured /\ callResult' = "html" /\ pc' = "loop")
       /\ thrown # Null => (html' = html /\ pc' = "catch")
  /\ pc = "browserClose" =>
       outcome' = IF thrown = Null THEN Returned(result[1]) ELSE Failed(thrown[1])
C15_CloseErrorsSwallowed == [][C15_CloseStep]_vars

\* page.close() rejected and the attempt still handed its HTML to the loop
C15_Witness ==
  /\ pc = "loop"
  /\ closeError # Null
  /\ callResult = "html"
  /\ html # Null
  /\ thrown = Null

\* C16 (as claimed): a failure of the in-page scroll script does not fail the
\* attempt: control goes on to the HTML capture; a failure of the capture fails
\* the attempt, as Transient unless its message matches a permanent pattern.
C16_ScrollStep ==
  /\ pc = "evaluate" => (pc' = "content" /\ thrown' = Null)
  /\ (pc = "content" /\ thrown' # Null) => pc' = "attemptCatch"
  /\ pc = "attemptCatch" =>
       (thrown'[1].permanent <=> PermanentPattern(thrown[1].message))
C16_ScrollIsBestEffort == [][C16_ScrollStep]_vars

\* messages of the errors thrown for a missing response and for a response
\* whose status is not in the success range
ResponseFailureMessages ==
  { <<"No response received">> }
  \cup { HttpErrorMessage(status) : status \in { x \in ResponseStatuses : ~ResponseOk(x) } }

\* C17: an attempt whose navigation returns no response, or a response whose
\* status is not in the success range, fails with an error that is never
\* Permanent, and is retried while attempts remain.
C17_Transient ==
  \A e \in PageLoadErrorsHeld : e.message \in ResponseFailureMessages => ~e.permanent
C17_Retried ==
  (pc = "catch" /\ thrown[1].message \in ResponseFailureMessages /\ attempts + 1 < maxRetries)
  => (pc' = "loop" /\ thrown' = Null /\ callResult' = "retry" /\ outcome' = Pending)
C19_PostExtractResponses ==
  (handler = "POST /extract" /\ pc = "responded") =>
    /\ response # Null
    /\ (request.json /\ request.url = Null) =>
         response[1] = Json([error |-> <<"URL is required">>], 400)
    /\ outcome.kind = "result" => response[1] = Json(outcome.value, 200)
    /\ outcome.kind = "error" =>
         response[1] = Json([error |-> <<"Failed to extract content">>], 500)

\* extractContent rejected the URL of the request and the handler answered 500
C19_Witness ==
  /\ handler = "POST /extract"
  /\ pc = "responded"
  /\ outcome = Failed(PageLoadError(<<"Invalid URL format">>))
  /\ response[1].status = 500

\* m occurs in t
IsInfix(m, t) == \E i \in 0..(Len(t) - Len(m)) : SubSeq(t, i + 1, i + Len(m)) = m

\* C20 (as claimed): the extraction tool handler always returns: for every
\* failure of extractContent a response flagged isError whose text contains the
\* failure message and whose metadata contains both error and url; for every
\* success metadata {isReadable, contentLength, excerpt, url} with contentLength
\* equal to result.length.
C20_ToolResponses ==
  (handler \in ToolHandlers /\ pc = "responded") =>
    /\ response # Null
    /\ outcome.kind = "error" =>
         /\ "isError" \in DOMAIN response[1]
         /\ response[1].isError
         /\ \E k \in 1..Len(response[1].content) :
              IsInfix(outcome.error.message, response[1].content[k].text)
         /\ "metadata" \in DOMAIN response[1]
         /\ response[1].metadata = [error |-> outcome.error.message, url |-> url]
    /\ outcome.kind = "result" =>
         response[1].metadata = [isReadable |-> outcome.value.isReadable,
                                 contentLength |-> outcome.value.length,
                                 excerpt |-> outcome.value.excerpt,
                                 url |-> url]

\* processHTML has run on the captured page
Processed == pc \in {"browserClose", "done"} /\ callResult = "html" /\ ~Falsy(html)

\* C21 (as claimed): the fallback branch of processHTML never throws: when
\* Readability's parse() returns null, and leaving aside a fault of the
\* libraries themselves, processHTML returns title = normalized document title,
\* content = body inner markup, textContent = normalized body text and
\* isReadable = false; for an empty or missing body the text fields are the
\* empty string and length is 0.
C21_FallbackNeverThrows ==
  (Processed /\ html[1].article = Null /\ thrown # Some(RawError(FaultMessage))) =>
    /\ thrown = Null
    /\ result # Null
    /\ result[1].title = normalizeText(Some(html[1].title))
    /\ html[1].body # Null => result[1].content = html[1].body[1].innerHTML
    /\ result[1].textContent = normalizeText(Some(RawText(html[1])))
    /\ ~result[1].isReadable
    /\ (html[1].body = Null \/ RawText(html[1]) = <<>>) =>
         /\ result[1].textContent = <<>>
         /\ result[1].excerpt = <<>>
         /\ result[1].length = 0

\* C22 (as claimed): when every browser operation and delay terminates, every
\* invocation eventually reaches a terminal outcome (result returned, invalid
\* URL, permanent failure or retries exhausted) and keeps it, for every sequence
\* of attempt outcomes, an attempt that returns the empty string included.
C22_EventuallyOneOutcome == <>[](pc = "done" /\ outcome # Pending)

\* a step that starts a call of attemptExtraction
CallStarts == callResult # "running" /\ callResult' = "running"

\* C23 (as claimed): attempts run strictly in sequence with indices 0, 1, 2,
\* each index used at most once: a call starts only at the beginning or after
\* the previous call ended with a Transient error, its index is the number of
\* calls before it, and after a call has returned HTML no further call or
\* backoff occurs.
C23_SequentialStep ==
  /\ CallStarts =>
       /\ callResult \in {"none", "retry"}
       /\ attempts = calls
       /\ attempts < maxRetries
  /\ callResult = "html" =>
       /\ ~CallStarts
       /\ pc' # "backoff"
       /\ totalDelay' = totalDelay
C23_AttemptsInSequence == [][C23_SequentialStep]_vars

\* call i holds a browser it has launched and not yet closed
HoldsBrowser(i) == inv[i].pc \in {"newContext", "loop", "attempt", "process", "close"}

\* C24: for any interleaving of two concurrent invocations, each launches
\* and closes only its own browser (the processes alive are exactly the ones
\* the calls hold, one each), keeps its own attempt counter and last error
\* (they are its own failures), ends with the outcome its own attempts
\* determine, a step of one call leaves the locals of the other unchanged, and
\* CONFIG is never written.
C24_OwnState ==
  /\ config = CONFIG
  /\ browsers = { inv[i].browser : i \in { j \in Invocations : HoldsBrowser(j) } }
  /\ \A i, j \in Invocations :
       (i # j /\ HoldsBrowser(i) /\ HoldsBrowser(j)) => inv[i].browser # inv[j].browser
  /\ \A i \in Invocations :
       /\ inv[i].attempts = inv[i].failed
       /\ inv[i].lastError = inv[i].lastFailure
       /\ inv[i].attempts <= config.maxRetries
       /\ inv[i].pc = "done" =>
            \/ ~isValidUrl(inv[i].url)
                 /\ inv[i].outcome = Failed(PageLoadError(<<"Invalid URL format">>))
            \/ inv[i].outcome = Failed(RawError(FaultMessage))
            \/ inv[i].outcome = Failed(RawError(TypeErrorMessage))
            \/ inv[i].outcome = Failed(PageLoadError(<<"Failed to extract content">>))
            \/ inv[i].lastFailure # Null /\ inv[i].lastFailure[1].permanent
                 /\ inv[i].outcome = Failed(inv[i].lastFailure[1])
            \/ inv[i].failed = config.maxRetries
                 /\ inv[i].outcome =
                      Failed(PageLoadError(ExhaustedMessage(inv[i].failed,
                                                            inv[i].lastFailure[1].message)))
            \/ ~Falsy(inv[i].html)
                 /\ inv[i].outcome = Returned(ExtractedContent(inv[i].html[1]))
C24_OwnStep ==
  \A i, j \in Invocations : (i # j /\ inv'[i] # inv[i]) => inv'[j] = inv[j]
C24_InvocationsIndependent == []C24_OwnState /\ [][C24_OwnStep]_vars

\* call 1 has exhausted its retries and closed its browser while call 2 is
\* in its second attempt with its browser alive
C24_Witness ==
  /\ inv[1].pc = "done"
  /\ inv[1].failed = maxRetries
  /\ inv[1].outcome.kind = "error"
  /\ inv[2].pc = "attempt"
  /\ inv[2].attempts = 1
  /\ inv[2].browser \in browsers

\* the form the claim gives to a normalized text
NormalForm(t) ==
  /\ \A k \in 1..Len(t) : t[k] \notin {CR, TAB}
  /\ \A k \in 1..(Len(t) - 1) :
       /\ ~(t[k] = SP /\ t[k + 1] = SP)
       /\ ~(t[k] = SP /\ t[k + 1] = LF)
       /\ ~(t[k] = LF /\ t[k + 1] = SP)
  /\ \A k \in 1..(Len(t) - 2) : ~(t[k] = LF /\ t[k + 1] = LF /\ t[k + 2] = LF)
  /\ t # <<>> => (t[1] \notin Whitespace /\ t[Len(t)] \notin Whitespace)

\* C25 (as claimed): for every input text the output of normalizeText holds no
\* carriage return, no tab, no two consecutive spaces, no space directly before
\* or after a line feed, no run of three or more line feeds and no leading or
\* trailing whitespace; for an empty or undefined input it is the empty string.
\* Stated of the text processHTML normalizes as article.textContent.
C25_NormalizedForm ==
  (result # Null /\ html[1].article # Null) =>
    /\ NormalForm(result[1].textContent)
    /\ ~Truthy(html[1].article[1].textContent) => result[1].textContent = <<>>

\* C26: in every successful invocation the string-level strip, cleanHTML and
\* the Readability pass have each run exactly once, in that order, on the HTML
\* of the one attempt that returned it, and the HTML string itself is left as
\* captured; none of them has run in an invocation that ends in invalid URL,
\* permanent failure or exhaustion.
C26_PassesOfOutcome ==
  /\ outcome.kind = "result" =>
       /\ passes = <<"strip", "cleanHTML", "Readability">>
       /\ callResult = "html"
       /\ ~Falsy(html)
       /\ outcome.value = ExtractedContent(html[1])
  /\ (outcome.kind = "error"
        /\ \/ IsInvalidUrlError(outcome.error)
           \/ IsPermanentPageLoadError(outcome.error)
           \/ IsExhaustedError(outcome.error)) => passes = <<>>
  /\ pc \notin {"browserClose", "done"} => passes = <<>>
C26_ProcessStep == pc = "processHTML" => (html' = html /\ callResult = "html")
C26_PassesOncePerSuccess == []C26_PassesOfOutcome /\ [][C26_ProcessStep]_vars

\* the second attempt returned the page and the invocation returned its content
C26_Witness ==
  /\ pc = "done"
  /\ outcome.kind = "result"
  /\ attempts = 1
  /\ passes = <<"strip", "cleanHTML", "Readability">>

\* C27: the total backoff of one extractContent invocation is the sum of
\* retryDelay * n over the attempts n preceded by a backoff; with maxRetries 3
\* and retryDelay 1000 it is at most 3000 ms for a non-problematic site and at
\* most 2000 ms for a problematic one, whatever the attempts' outcomes.
C27_TotalBackoffBounded ==
  /\ delay \in {0} \cup {retryDelay * n : n \in 1..(maxRetries - 1)}
  /\ totalDelay <= IF isProblematicSite THEN 2000 ELSE 3000

====
